---- MODULE Spec2Model ----
(***************************************************************************)
(* A model of cheml.chem.Dragon (src/cheml/chem/Dragon.py): the builder of *)
(* Dragon 6/7 script files.  One Dragon object is modelled: its option     *)
(* attributes, the attributes script_wizard creates on it, the files it    *)
(* writes and reads, and the commands it launches.                         *)
(*                                                                         *)
(* Representation.  A Python string is a sequence of chunks (TLA+ strings);*)
(* concatenation is \o.  A chunk holds no '/' unless it is exactly "/",    *)
(* and the first chunk of a version string is its first character, so the  *)
(* character tests of the code (s[-1] == '/', s[0] in ['6','7']) are tests *)
(* of the last and first chunk.  An attribute that may be None is a        *)
(* sequence of zero (None) or one string.  An XML element is a record      *)
(* [tag, attrs, children], attrs a sequence of [k, v] records.             *)
(***************************************************************************)
EXTENDS Integers, Sequences, FiniteSets, TLC

VARIABLES
    opts,       \* the option attributes set by __init__ (self.version, ...)
    attrs,      \* the attributes script_wizard has created so far on self
    self,       \* their values: output_directory, dragon, drs_name, drs, data_path
    fs,         \* the files on disk: path -> file content ; dirs: directories
    dirs,
    last,       \* the last call: what was called, with what, how it ended
    good,       \* the most recent script_wizard call that built or loaded a document
    left,       \* how many more calls are made on the object
    oneshot     \* the object is made for one fresh build: Dragon(...).script_wizard()

vars == <<opts, attrs, self, fs, dirs, last, good, left, oneshot>>

-----------------------------------------------------------------------------
(* Bounds of the exploration *)

\* calls (script_wizard, run, printout, attribute assignments) made on an object
MaxSteps == 3
\* length of the Weights lists an object is constructed with
MaxWeights == 2

-----------------------------------------------------------------------------
(* Python strings and values *)

S(t) == <<t>>
None == <<>>
Some(s) == <<s>>
IsNone(x) == x = <<>>

Sep == "/"

RECURSIVE IntToStr(_)
\* "%i" % n for n >= 0: the decimal digits, one chunk per character
IntToStr(n) ==
    LET d == <<"0","1","2","3","4","5","6","7","8","9">>
    IN  IF n < 10 THEN <<d[n + 1]>> ELSE IntToStr(n \div 10) \o <<d[(n % 10) + 1]>>

_bool_formatter(b) == IF b THEN S("true") ELSE S("false")

-----------------------------------------------------------------------------
(* XML elements, as lxml.objectify builds them *)

A(k, v) == [k |-> k, v |-> v]
Node(tag, as, ch) == [tag |-> tag, attrs |-> as, children |-> ch]
\* objectify.Element(tag, value = v)
Element(tag, v) == Node(tag, <<A("value", v)>>, <<>>)
\* parent.append(child) / objectify.SubElement(parent, tag)
AppendChild(parent, child) == [parent EXCEPT !.children = @ \o <<child>>]

HasAttr(e, k) == \E i \in 1..Len(e.attrs) : e.attrs[i].k = k
\* e.attrib[k], for an attribute the element has
Attr(e, k) == e.attrs[CHOOSE i \in 1..Len(e.attrs) : e.attrs[i].k = k].v
HasChild(e, tag) == \E i \in 1..Len(e.children) : e.children[i].tag = tag
\* e.<tag>: objectify's attribute access gives the first child with that tag
Child(e, tag) ==
    e.children[CHOOSE i \in 1..Len(e.children) :
                  /\ e.children[i].tag = tag
                  /\ \A j \in 1..(i - 1) : e.children[j].tag # tag]
Tags(e) == {e.children[i].tag : i \in 1..Len(e.children)}

-----------------------------------------------------------------------------
(* The options: Dragon.__init__ *)

ValidWeights == {"Mass","VdWVolume","Electronegativity","Polarizability","Ionization","I-State"}
MaxBlock6 == 29
MaxBlock7 == 30
Formats6 == {"SYBYL","MDL","HYPERCHEM","SMILES","MACROMODEL"}
Formats7 == {"SYBYL","MDL","HYPERCHEM","SMILES","CML","MACROMODEL"}

\* range(1,30)
DefaultBlocks == [i \in 1..MaxBlock6 |-> i]

\* the keyword defaults of __init__
Defaults ==
    [version |-> 6, CheckUpdates |-> TRUE, SaveLayout |-> TRUE,
     PreserveTemporaryProjects |-> TRUE, ShowWorksheet |-> FALSE,
     Decimal_Separator |-> S("."), Missing_String |-> S("NaN"),
     DefaultMolFormat |-> S("1"), HelpBrowser |-> S("/usr/bin/xdg-open"),
     RejectUnusualValence |-> FALSE, Add2DHydrogens |-> FALSE,
     MaxSRforAllCircuit |-> S("19"), MaxSR |-> S("35"), MaxSRDetour |-> S("30"),
     MaxAtomWalkPath |-> S("2000"), LogPathWalk |-> TRUE, LogEdge |-> TRUE,
     Weights |-> <<"Mass","VdWVolume","Electronegativity","Polarizability","Ionization","I-State">>,
     SaveOnlyData |-> FALSE, SaveLabelsOnSeparateFile |-> FALSE,
     SaveFormatBlock |-> S("%b-%n.txt"), SaveFormatSubBlock |-> S("%b-%s-%n-%m.txt"),
     SaveExcludeMisVal |-> FALSE, SaveExcludeAllMisVal |-> FALSE,
     SaveExcludeConst |-> FALSE, SaveExcludeNearConst |-> FALSE,
     SaveExcludeStdDev |-> FALSE, SaveStdDevThreshold |-> S("0.0001"),
     SaveExcludeCorrelated |-> FALSE, SaveCorrThreshold |-> S("0.95"),
     SaveExclusionOptionsToVariables |-> FALSE, SaveExcludeMisMolecules |-> FALSE,
     SaveExcludeRejectedMolecules |-> FALSE, blocks |-> DefaultBlocks,
     molInput |-> "stdin", molInputFormat |-> "SMILES", molFile |-> None,
     SaveStdOut |-> FALSE, SaveProject |-> FALSE,
     SaveProjectFile |-> S("Dragon_project.drp"), SaveFile |-> TRUE,
     SaveType |-> S("singlefile"), SaveFilePath |-> S("Dragon_descriptors.txt"),
     logMode |-> "file", logFile |-> S("Dragon_log.txt"),
     external |-> FALSE, fileName |-> None, delimiter |-> S(","),
     consecutiveDelimiter |-> FALSE, MissingValue |-> S("NaN"),
     RejectDisconnectedStrucuture |-> FALSE, RetainBiggestFragment |-> FALSE,
     DisconnectedCalculationOption |-> S("0"), RoundCoordinates |-> TRUE,
     RoundWeights |-> TRUE, RoundDescriptorValues |-> TRUE, knimemode |-> FALSE]

\* objectify.Element(tag, value = _bool_formatter(self.<tag>))
BoolEl(o, tag) == Element(tag, _bool_formatter(o[tag]))
\* objectify.Element(tag, value = self.<tag>)
StrEl(o, tag) == Element(tag, o[tag])
BoolEls(o, tags) == [i \in 1..Len(tags) |-> BoolEl(o, tags[i])]

-----------------------------------------------------------------------------
(* script_wizard, script == 'new': the sections of the document.  A section *)
(* is attached to self.dragon when it is created (SubElement), so a raise   *)
(* leaves in self.dragon what was appended up to it.  Each section operator *)
(* gives [el, exc]: the section as far as it got, and the exception raised  *)
(* while filling it ("none" when it was completed).                         *)

Done(el) == [el |-> el, exc |-> "none"]
Raised(el, exc) == [el |-> el, exc |-> exc]

\* where a loop raises: the index of the first FALSE of oks, Len(oks)+1 if none
FirstBad(oks) ==
    IF \A i \in 1..Len(oks) : oks[i] THEN Len(oks) + 1
    ELSE CHOOSE i \in 1..Len(oks) : ~oks[i] /\ \A j \in 1..(i - 1) : oks[j]

\* the loop over self.Weights
WeightOk_Mutant(w) == w \in ValidWeights \ {"I-State"}
WeightOk(w) == w \in ValidWeights
\* the weight entries appended before the n-th weight
WeightsUpTo(ws, n) ==
    [el  |-> Node("Weights", <<>>,
                  [i \in 1..(n - 1) |-> Node("weight", <<A("name", S(ws[i]))>>, <<>>)]),
     exc |-> IF n <= Len(ws) THEN "ValueError" ELSE "none"]
WeightsEl(ws) == WeightsUpTo(ws, FirstBad([i \in 1..Len(ws) |-> WeightOk(ws[i])]))

OptionsHead6(o) ==
    BoolEls(o, <<"CheckUpdates", "SaveLayout", "ShowWorksheet">>)
    \o <<StrEl(o, "Decimal_Separator"), StrEl(o, "Missing_String"),
         StrEl(o, "DefaultMolFormat"), StrEl(o, "HelpBrowser")>>
    \o BoolEls(o, <<"RejectUnusualValence", "Add2DHydrogens">>)
    \o <<StrEl(o, "MaxSRforAllCircuit"), StrEl(o, "MaxSR"), StrEl(o, "MaxSRDetour"),
         StrEl(o, "MaxAtomWalkPath")>>
    \o BoolEls(o, <<"LogPathWalk", "LogEdge">>)

\* a version 7 build that leaves "NaN" as it is
MissingString7_Mutant(o) == o.Missing_String
\* line 239: if self.Missing_String == "NaN": self.Missing_String = "na"
MissingString7(o) == IF o.Missing_String = S("NaN") THEN S("na") ELSE o.Missing_String

OptionsHead7(o) ==
    BoolEls(o, <<"CheckUpdates", "PreserveTemporaryProjects", "SaveLayout">>)
    \o <<StrEl(o, "Decimal_Separator"), Element("Missing_String", MissingString7(o)),
         StrEl(o, "DefaultMolFormat")>>
    \o BoolEls(o, <<"RejectDisconnectedStrucuture", "RetainBiggestFragment",
                    "RejectUnusualValence", "Add2DHydrogens">>)
    \o <<StrEl(o, "DisconnectedCalculationOption"), StrEl(o, "MaxSRforAllCircuit"),
         StrEl(o, "MaxSRDetour"), StrEl(o, "MaxAtomWalkPath")>>
    \o BoolEls(o, <<"RoundCoordinates", "RoundWeights", "LogPathWalk", "LogEdge">>)

OptionsTail6(o) ==
    BoolEls(o, <<"SaveOnlyData", "SaveLabelsOnSeparateFile">>)
    \o <<StrEl(o, "SaveFormatBlock"), StrEl(o, "SaveFormatSubBlock")>>
    \o BoolEls(o, <<"SaveExcludeMisVal", "SaveExcludeAllMisVal", "SaveExcludeConst",
                    "SaveExcludeNearConst", "SaveExcludeStdDev">>)
    \o <<StrEl(o, "SaveStdDevThreshold"), BoolEl(o, "SaveExcludeCorrelated"),
         StrEl(o, "SaveCorrThreshold")>>
    \o BoolEls(o, <<"SaveExclusionOptionsToVariables", "SaveExcludeMisMolecules",
                    "SaveExcludeRejectedMolecules">>)

OptionsTail7(o) == OptionsTail6(o) \o <<BoolEl(o, "RoundDescriptorValues")>>

\* OPTIONS: what precedes the weights, the weights, and what follows them
OptionsOf(head, w, tail) ==
    [el  |-> Node("OPTIONS", <<>>, head \o <<w.el>> \o (IF w.exc # "none" THEN <<>> ELSE tail)),
     exc |-> w.exc]
OptionsSection(o) ==
    IF o.version = 6
    THEN OptionsOf(OptionsHead6(o), WeightsEl(o.Weights), OptionsTail6(o))
    ELSE OptionsOf(OptionsHead7(o), WeightsEl(o.Weights), OptionsTail7(o))

\* the loop over self.blocks
BlockOk6(i) == ~(i < 1 \/ i > MaxBlock6)
BlockOk7_Mutant(i) == ~(i < 1 \/ i >= MaxBlock7)
BlockOk7(i) == ~(i < 1 \/ i > MaxBlock7)
BlockEl(i) == Node("block", <<A("id", IntToStr(i)), A("SelectAll", S("true"))>>, <<>>)
\* the block entries appended before the n-th block id
BlocksUpTo(bs, n) ==
    [el  |-> Node("DESCRIPTORS", <<>>, [i \in 1..(n - 1) |-> BlockEl(bs[i])]),
     exc |-> IF n <= Len(bs) THEN "ValueError" ELSE "none"]
DescriptorsSection(o) ==
    IF o.version = 6
    THEN BlocksUpTo(o.blocks, FirstBad([i \in 1..Len(o.blocks) |-> BlockOk6(o.blocks[i])]))
    ELSE BlocksUpTo(o.blocks, FirstBad([i \in 1..Len(o.blocks) |-> BlockOk7(o.blocks[i])]))

Formats_Mutant(v) == Formats7
Formats(v) == IF v = 6 THEN Formats6 ELSE Formats7
\* lxml refuses None as an attribute value: objectify.Element(tag, value = None)
\* raises TypeError before anything is appended
MolfilesOf(o, el) ==
    IF o.molInput = "stdin"
    THEN IF o.molInputFormat \notin Formats(o.version)
         THEN Raised(el, "ValueError")
         ELSE Done(AppendChild(el, Element("molInputFormat", S(o.molInputFormat))))
    ELSE IF o.molInput = "file"
         THEN IF IsNone(o.molFile)
              THEN Raised(el, "TypeError")
              ELSE Done(AppendChild(el, Element("molFile", o.molFile[1])))
         ELSE Raised(el, "ValueError")
MolfilesSection(o) ==
    MolfilesOf(o, Node("MOLFILES", <<>>, <<Element("molInput", S(o.molInput))>>))

OutputSection(o, dir) ==
    Node("OUTPUT", <<>>,
         (IF o.version = 7 THEN <<BoolEl(o, "knimemode")>> ELSE <<>>)
         \o <<BoolEl(o, "SaveStdOut"), BoolEl(o, "SaveProject")>>
         \o (IF o.SaveProject THEN <<StrEl(o, "SaveProjectFile")>> ELSE <<>>)
         \o <<BoolEl(o, "SaveFile")>>
         \o (IF o.SaveFile
             THEN <<StrEl(o, "SaveType"), Element("SaveFilePath", dir \o o.SaveFilePath)>>
             ELSE <<>>)
         \o <<Element("logMode", S(o.logMode))>>
         \o (IF o.logMode = "file" THEN <<Element("logFile", dir \o o.logFile)>> ELSE <<>>))

ExternalSection(o) ==
    IF IsNone(o.fileName)
    THEN Raised(Node("EXTERNAL", <<>>, <<>>), "TypeError")
    ELSE Done(Node("EXTERNAL", <<>>,
                   <<Element("fileName", o.fileName[1]), StrEl(o, "delimiter"),
                     BoolEl(o, "consecutiveDelimiter"), StrEl(o, "MissingValue")>>))

\* objectify.Element("DRAGON", version = "%i.0.0" % self.version, ...)
Root(o, date) ==
    Node("DRAGON",
         <<A("version", IntToStr(o.version) \o S(".0.0"))>>
         \o (IF o.version = 7 THEN <<A("description", S("Dragon7 - FP1 - MD5270"))>> ELSE <<>>)
         \o <<A("script_version", S("1")), A("generation_date", date)>>,
         <<>>)

\* self.dragon and the exception raised, from the root and the sections as far
\* as each got: the sections that follow a raise are not created
Assemble(root, op, de, mo, out, ex, external) ==
    [dragon |-> [root EXCEPT !.children =
                    <<op.el>>
                    \o (IF op.exc = "none" THEN <<de.el>> ELSE <<>>)
                    \o (IF op.exc = "none" /\ de.exc = "none" THEN <<mo.el>> ELSE <<>>)
                    \o (IF op.exc = "none" /\ de.exc = "none" /\ mo.exc = "none"
                        THEN <<out>> \o (IF external THEN <<ex.el>> ELSE <<>>)
                        ELSE <<>>)],
     exc |-> IF op.exc # "none" THEN op.exc
             ELSE IF de.exc # "none" THEN de.exc
             ELSE IF mo.exc # "none" THEN mo.exc
             ELSE IF external THEN ex.exc ELSE "none"]

\* The document of a version 6 or 7 build, up to the call of _save_script:
\* [dragon, exc], dragon being self.dragon when the build raised or finished.
NewScript(o, dir, date) ==
    Assemble(Root(o, date), OptionsSection(o), DescriptorsSection(o), MolfilesSection(o),
             OutputSection(o, dir), ExternalSection(o), o.external)

-----------------------------------------------------------------------------
(* The script file: etree.tostring on the way out, etree.parse on the way   *)
(* in.  The text of a file is the sequence of its start and end tags.       *)

\* <tag attrs>, </tag>, and <tag attrs/> for an element without children
Open(e) == [t |-> "open", tag |-> e.tag, attrs |-> e.attrs]
Close(e) == [t |-> "close", tag |-> e.tag, attrs |-> <<>>]
Empty(e) == [t |-> "empty", tag |-> e.tag, attrs |-> e.attrs]

RECURSIVE tostring(_)
RECURSIVE tostringAll(_)
\* etree.tostring(element)
tostring(e) ==
    IF e.children = <<>> THEN <<Empty(e)>>
    ELSE <<Open(e)>> \o tostringAll(e.children) \o <<Close(e)>>
tostringAll(es) == IF es = <<>> THEN <<>> ELSE tostring(Head(es)) \o tostringAll(Tail(es))

\* the number of elements open before the k-th tag of the text
Level(text, k) ==
    Cardinality({m \in 1..(k - 1) : text[m].t = "open"})
    - Cardinality({m \in 1..(k - 1) : text[m].t = "close"})
\* the end tag of the element whose start tag is the i-th tag
EndOf(text, i) ==
    CHOOSE j \in (i + 1)..Len(text) :
        /\ text[j].t = "close" /\ Level(text, j) = Level(text, i) + 1
        /\ \A m \in (i + 1)..(j - 1) :
              ~(text[m].t = "close" /\ Level(text, m) = Level(text, i) + 1)
\* the tags, between the i-th tag and its end tag j, that start its children
StartsIn(text, i, j) ==
    {k \in (i + 1)..(j - 1) : text[k].t # "close" /\ Level(text, k) = Level(text, i) + 1}
\* a set of positions in increasing order
Sorted(K) == [m \in 1..Cardinality(K) |-> CHOOSE k \in K : Cardinality({x \in K : x <= k}) = m]

RECURSIVE ElementAt(_, _)
RECURSIVE ElementsAt(_, _)
\* the element that the i-th tag of the text starts
ElementAt(text, i) ==
    IF text[i].t = "empty" THEN Node(text[i].tag, text[i].attrs, <<>>)
    ELSE Node(text[i].tag, text[i].attrs,
              ElementsAt(text, Sorted(StartsIn(text, i, EndOf(text, i)))))
ElementsAt(text, starts) == [m \in 1..Len(starts) |-> ElementAt(text, starts[m])]
\* objectify.fromstring(etree.tostring(etree.parse(script))), for a well-formed file
parse(text) == ElementAt(text, 1)

ScriptName == S("Dragon_script.drs")

-----------------------------------------------------------------------------
(* The files script_wizard may be given: scripts written by other tools *)

Sec(tag, ch) == Node(tag, <<>>, ch)
DocOf(version, sections) ==
    Node("DRAGON", version \o <<A("script_version", S("1"))>>, sections)
V(chunks) == <<A("version", chunks)>>
ForeignOutput == Sec("OUTPUT", <<Element("SaveFile", S("true")),
                                 Element("SaveFilePath", S("results.txt"))>>)
\* nothing in it would pass the checks of a fresh build
ForeignOptions == Sec("OPTIONS", <<Node("Weights", <<>>,
                                        <<Node("weight", <<A("name", S("Bogus"))>>, <<>>)>>)>>)
ForeignDescriptors == Sec("DESCRIPTORS", <<Node("block", <<A("id", S("99")), A("SelectAll", S("true"))>>, <<>>)>>)
ForeignMolfiles == Sec("MOLFILES", <<Element("molInput", S("stdin")), Element("molInputFormat", S("XYZ"))>>)
FourSections == <<ForeignOptions, ForeignDescriptors, ForeignMolfiles, ForeignOutput>>

ForeignFiles ==
    [name \in {"v7.drs", "v5.drs", "nested.drs", "nover.drs", "emptyver.drs", "nosave.drs"} |->
        CASE name = "v7.drs"  -> DocOf(V(<<"7", ".0.0">>), FourSections)
          [] name = "v5.drs"  -> DocOf(V(<<"5", ".3">>), FourSections)
          \* MOLFILES and OUTPUT are there, but not as children of the root
          [] name = "nested.drs" ->
                DocOf(V(<<"6", ".0.0">>),
                      <<ForeignOptions, ForeignDescriptors,
                        Sec("EXTRA", <<ForeignMolfiles, ForeignOutput>>)>>)
          [] name = "nover.drs" -> DocOf(<<>>, FourSections)
          [] name = "emptyver.drs" -> DocOf(V(<<>>), FourSections)
          [] name = "nosave.drs" ->
                DocOf(V(<<"6", ".0.0">>),
                      <<ForeignOptions, ForeignDescriptors, ForeignMolfiles,
                        Sec("OUTPUT", <<Element("SaveFile", S("false"))>>)>>)]

-----------------------------------------------------------------------------
(* script_wizard *)

New == S("new")

\* lines 141-144
Normalize(output_directory) ==
    IF output_directory[Len(output_directory)] = Sep
    THEN output_directory
    ELSE output_directory \o <<Sep>>

\* open(path, 'w').write(text)
Write(files, path, text) ==
    [p \in (DOMAIN files) \cup {path} |-> IF p = path THEN text ELSE files[p]]

\* line 339: self.dragon.OUTPUT.SaveFilePath.attrib['value'], as [exc, value]
SaveFilePathOf(out) ==
    IF ~HasChild(out, "SaveFilePath") THEN [exc |-> "AttributeError", value |-> <<>>]
    ELSE IF ~HasAttr(Child(out, "SaveFilePath"), "value")
         THEN [exc |-> "KeyError", value |-> <<>>]
         ELSE [exc |-> "none", value |-> Attr(Child(out, "SaveFilePath"), "value")]
ReadDataPath(has, me) ==
    IF "dragon" \notin has THEN [exc |-> "AttributeError", value |-> <<>>]
    ELSE IF ~HasChild(me.dragon, "OUTPUT") THEN [exc |-> "AttributeError", value |-> <<>>]
    ELSE SaveFilePathOf(Child(me.dragon, "OUTPUT"))

\* line 339: the assignment of self.data_path, or the exception of its right side
StoreDataPath(st, dp) ==
    IF dp.exc # "none" THEN [st EXCEPT !.result = dp.exc]
    ELSE [st EXCEPT !.attrs = @ \cup {"data_path"},
                    !.self.data_path = dp.value,
                    !.result = "self"]
\* lines 339-340, from the state st reached so far
Finish(st) == StoreDataPath(st, ReadDataPath(st.attrs, st.self))

\* _save_script that writes the OPTIONS section in place of the document
_save_script_Mutant(st) ==
    [st EXCEPT !.attrs = @ \cup {"drs_name"},
               !.self.drs_name = ScriptName,
               !.fs = Write(@, st.self.output_directory \o ScriptName,
                            tostring(Child(st.self.dragon, "OPTIONS"))),
               !.wrote = TRUE]

\* _save_script
_save_script(st) ==
    [st EXCEPT !.attrs = @ \cup {"drs_name"},
               !.self.drs_name = ScriptName,
               !.fs = Write(@, st.self.output_directory \o ScriptName, tostring(st.self.dragon)),
               !.wrote = TRUE]

\* a build that saves the script before it raises
Built_Mutant(st, b) ==
    IF b.exc # "none"
    THEN [_save_script([st EXCEPT !.attrs = @ \cup {"dragon"}, !.self.dragon = b.dragon])
             EXCEPT !.result = b.exc]
    ELSE Finish(_save_script([st EXCEPT !.attrs = @ \cup {"dragon"},
                                        !.self.dragon = b.dragon]))

\* lines 150-228 and 231-318: self.dragon is bound to the document b.dragon;
\* the build raises b.exc, or saves the script and goes on to line 339
Built(st, b) ==
    IF b.exc # "none"
    THEN [st EXCEPT !.attrs = @ \cup {"dragon"}, !.self.dragon = b.dragon, !.result = b.exc]
    ELSE Finish(_save_script([st EXCEPT !.attrs = @ \cup {"dragon"},
                                        !.self.dragon = b.dragon]))

\* a version 7 build stores the Missing_String it has changed (line 239)
BuildWith(st, o, date) ==
    Built([st EXCEPT !.opts = o], NewScript(o, st.self.output_directory, date))

\* lines 148-322: script == 'new'
FreshBuild(st, date) ==
    IF st.opts.version = 6 THEN BuildWith(st, st.opts, date)
    ELSE IF st.opts.version = 7
         THEN BuildWith(st, [st.opts EXCEPT !.Missing_String = MissingString7(st.opts)], date)
         ELSE Finish([st EXCEPT !.warned = TRUE])

MandatoryNodes == {"OPTIONS", "DESCRIPTORS", "MOLFILES", "OUTPUT"}

\* lines 330-338, self.dragon being the document read
Loaded(st, script) ==
    IF ~HasAttr(st.self.dragon, "version") THEN [st EXCEPT !.result = "KeyError"]
    ELSE IF Attr(st.self.dragon, "version") = <<>> THEN [st EXCEPT !.result = "IndexError"]
    ELSE IF ~(MandatoryNodes \subseteq Tags(st.self.dragon))
         THEN [st EXCEPT !.warned = Attr(st.self.dragon, "version")[1] \notin {"6", "7"},
                         !.result = "ValueError"]
         ELSE Finish([st EXCEPT !.warned = Attr(st.self.dragon, "version")[1] \notin {"6", "7"},
                                !.attrs = @ \cup {"drs"},
                                !.self.drs = script])

\* lines 325-338: script is the name of a file
LoadScript(st, script) ==
    IF script \notin DOMAIN st.fs THEN [st EXCEPT !.result = "IOError"]
    ELSE Loaded([st EXCEPT !.attrs = @ \cup {"dragon"},
                           !.self.dragon = parse(st.fs[script])], script)

\* lines 145-148, self.output_directory being set
Dispatch(st, script, date) ==
    IF script = New THEN FreshBuild(st, date) ELSE LoadScript(st, script)

\* script_wizard(script, output_directory): the state it leaves, with how it
\* ended (result), whether it warned and whether it wrote the script file
script_wizard(st, script, output_directory, date) ==
    IF output_directory = <<>> THEN [st EXCEPT !.result = "IndexError"]
    ELSE Dispatch([st EXCEPT !.attrs = @ \cup {"output_directory"},
                             !.self.output_directory = Normalize(output_directory),
                             !.dirs = @ \cup {Normalize(output_directory)}],
                  script, date)

\* run(): the command given to os.system, as [exc, cmd]
run(has, me, o) ==
    IF {"output_directory", "drs_name"} \subseteq has
    THEN [exc |-> "none",
          cmd |-> S("nohup dragon") \o IntToStr(o.version) \o S("shell -s ")
                  \o me.output_directory \o me.drs_name]
    ELSE [exc |-> "AttributeError", cmd |-> <<>>]

-----------------------------------------------------------------------------
(* The inputs tried *)

RECURSIVE ListsUpTo(_, _)
ListsUpTo(n, X) ==
    IF n = 0 THEN {<<>>}
    ELSE LET shorter == ListsUpTo(n - 1, X)
         IN  shorter \cup {l \o <<x>> : l \in shorter, x \in X}

WeightNames == ValidWeights \cup {"Bogus"}
WeightLists == ListsUpTo(MaxWeights, WeightNames)
BlockIds == 0..(MaxBlock7 + 1)
BlockLists == {<<i>> : i \in BlockIds} \cup {<<>>, <<1, 2, 3>>, <<2, 2>>, <<3, 0, 4>>}
FormatNames == Formats7 \cup {"XYZ"}
MolInputs == {"stdin", "file", "url"}
MolFiles == {None, Some(S("mols.sdf"))}
FileNames == {None, Some(S("ext.csv"))}
LogModes == {"file", "none"}
MissingStrings == {S("NaN"), S("-999")}
Versions == {5, 6, 7}

\* Dragon(version = v, <one group of keyword arguments>)
ProbeOptions ==
    {[Defaults EXCEPT !.version = v, !.Weights = w] : v \in {6, 7}, w \in WeightLists}
    \cup {[Defaults EXCEPT !.version = v, !.blocks = b] : v \in {6, 7}, b \in BlockLists}
    \cup {[Defaults EXCEPT !.version = v, !.molInput = m, !.molInputFormat = f, !.molFile = mf] :
             v \in {6, 7}, m \in MolInputs, f \in FormatNames, mf \in MolFiles}
    \cup {[Defaults EXCEPT !.version = v, !.SaveFile = sf, !.SaveProject = sp, !.logMode = lm,
                           !.external = ex, !.fileName = fn] :
             v \in Versions, sf \in BOOLEAN, sp \in BOOLEAN, lm \in LogModes,
             ex \in BOOLEAN, fn \in FileNames}

\* Dragon() and Dragon(version = 7), then used for several calls
SessionOptions == {Defaults, [Defaults EXCEPT !.version = 7]}

\* what an attribute of the object is set to between calls
Assignable ==
    [version |-> Versions,
     Weights |-> {<<"Mass", "Bogus">>},
     SaveFile |-> {FALSE},
     external |-> {TRUE},
     Missing_String |-> {S("-999")}]

Dirs == {S("out"), <<"tmp", Sep>>, <<>>}
Dates == {S("2015/11/19"), S("2015/11/20")}
Scripts == {S(n) : n \in DOMAIN ForeignFiles}
           \cup {Normalize(d) \o ScriptName : d \in Dirs \ {<<>>}}
           \cup {S("missing.drs")}

-----------------------------------------------------------------------------
(* The object and its calls *)

NoNode == Node("", <<>>, <<>>)
NoCall == [op |-> "__init__", script |-> <<>>, dir |-> <<>>, result |-> "none",
           warned |-> FALSE, wrote |-> FALSE, cmd |-> <<>>]

Init ==
    /\ \/ opts \in ProbeOptions /\ oneshot = TRUE
       \/ opts \in SessionOptions /\ oneshot = FALSE
    /\ left = MaxSteps
    /\ attrs = {}
    /\ self = [output_directory |-> <<>>, dragon |-> NoNode, drs_name |-> <<>>,
               drs |-> <<>>, data_path |-> <<>>]
    /\ fs = [p \in {S(n) : n \in DOMAIN ForeignFiles} |-> tostring(ForeignFiles[p[1]])]
    /\ dirs = {}
    /\ last = NoCall
    /\ good = [kind |-> "none", path |-> <<>>, version |-> 0]

Step ==
    /\ left > 0
    /\ left' = IF oneshot THEN 0 ELSE left - 1
    /\ UNCHANGED oneshot

\* a call on an object that is kept for several calls
SessionStep == ~oneshot /\ Step

Current == [opts |-> opts, attrs |-> attrs, self |-> self, fs |-> fs, dirs |-> dirs,
            result |-> "none", warned |-> FALSE, wrote |-> FALSE]

\* the state after a call of script_wizard that left r
Return(r, script, output_directory) ==
    /\ opts' = r.opts
    /\ attrs' = r.attrs
    /\ self' = r.self
    /\ fs' = r.fs
    /\ dirs' = r.dirs
    /\ last' = [op |-> "script_wizard", script |-> script, dir |-> output_directory,
                result |-> r.result, warned |-> r.warned, wrote |-> r.wrote,
                cmd |-> <<>>]
    /\ good' = IF r.result = "self" /\ script = New /\ r.wrote
               THEN [kind |-> "new", path |-> r.self.output_directory \o ScriptName,
                     version |-> r.opts.version]
               ELSE IF r.result = "self" /\ script # New
               THEN [kind |-> "load", path |-> script, version |-> r.opts.version]
               ELSE good

\* the call self.script_wizard(script, output_directory)
Call(script, output_directory, date) ==
    /\ Step
    /\ Return(script_wizard(Current, script, output_directory, date), script, output_directory)

ScriptWizardNew == \E d \in Dirs, date \in Dates : Call(New, d, date)

\* the date is not read when a file is loaded
ScriptWizardLoad == ~oneshot /\ \E script \in Scripts, d \in Dirs : Call(script, d, <<>>)

Ran(r) ==
    last' = [NoCall EXCEPT !.op = "run",
                           !.result = IF r.exc = "none" THEN "None" ELSE r.exc,
                           !.cmd = r.cmd]
Run ==
    /\ SessionStep
    /\ Ran(run(attrs, self, opts))
    /\ UNCHANGED <<opts, attrs, self, fs, dirs, good>>

\* printout(): deannotate, cleanup_namespaces and dump of self.dragon
Printout ==
    /\ SessionStep
    /\ last' = [NoCall EXCEPT !.op = "printout",
                              !.result = IF "dragon" \in attrs THEN "None" ELSE "AttributeError"]
    /\ UNCHANGED <<opts, attrs, self, fs, dirs, good>>

\* obj.<f> = v
SetAttr ==
    \E f \in DOMAIN Assignable : \E v \in Assignable[f] :
        /\ SessionStep
        /\ opts' = [opts EXCEPT ![f] = v]
        /\ last' = [NoCall EXCEPT !.op = "setattr"]
        /\ UNCHANGED <<attrs, self, fs, dirs, good>>

Next == ScriptWizardNew \/ ScriptWizardLoad \/ Run \/ Printout \/ SetAttr

Spec == Init /\ [][Next]_vars

-----------------------------------------------------------------------------
(* What the claims speak of *)

\* the last call was script_wizard('new', dir) with a directory name it can use
FreshCall == last.op = "script_wizard" /\ last.script = New /\ last.dir # <<>>
\* the last call was script_wizard(<file name>, dir)
LoadCall == last.op = "script_wizard" /\ last.script # New /\ last.dir # <<>>
Supported == opts.version \in {6, 7}

InRange(i, lo, hi) == lo <= i /\ i <= hi
WeightsValid == \A i \in 1..Len(opts.Weights) : opts.Weights[i] \in ValidWeights
BlocksValid ==
    \A i \in 1..Len(opts.blocks) :
        InRange(opts.blocks[i], 1, IF opts.version = 6 THEN 29 ELSE 30)
FormatValid ==
    opts.molInputFormat \in
        {"SYBYL", "MDL", "HYPERCHEM", "SMILES", "MACROMODEL"}
        \cup (IF opts.version = 7 THEN {"CML"} ELSE {})
MolValid ==
    \/ opts.molInput = "stdin" /\ FormatValid
    \/ opts.molInput = "file" /\ opts.molFile # None
\* the data file is saved, and the external file is named when it is asked for
OutputValid == opts.SaveFile
ExternalValid == opts.external => opts.fileName # None

Doc == self.dragon
Section(tag) == Child(Doc, tag)
TagsOf(e) == [i \in 1..Len(e.children) |-> e.children[i].tag]

-----------------------------------------------------------------------------
(* C1: a fresh build under version 6 or 7, its other options valid: with    *)
(* every weight among the six names it returns, and OPTIONS/Weights holds   *)
(* one weight entry per list element, in order, duplicates kept; with any   *)
(* other weight name it raises ValueError.                                  *)
C1_Weights ==
    (FreshCall /\ Supported) =>
        /\ (WeightsValid /\ BlocksValid /\ MolValid /\ OutputValid /\ ExternalValid) =>
              /\ last.result = "self"
              /\ "dragon" \in attrs
              /\ Child(Section("OPTIONS"), "Weights").children
                    = [i \in 1..Len(opts.Weights) |->
                          Node("weight", <<A("name", <<opts.Weights[i]>>)>>, <<>>)]
        /\ ~WeightsValid => last.result = "ValueError"

C1_Witness ==
    /\ FreshCall /\ opts.version = 7 /\ opts.Weights = <<"I-State", "I-State">>
    /\ last.result = "self"
    /\ Len(Child(Section("OPTIONS"), "Weights").children) = 2

(* C2: a fresh build accepts every block id in 1..29 (version 6), 1..30     *)
(* (version 7) and gives it one DESCRIPTORS block entry with that id and    *)
(* SelectAll="true"; an id outside the range makes the build raise          *)
(* ValueError.                                                              *)
C2_Blocks ==
    (FreshCall /\ Supported /\ WeightsValid) =>
        /\ BlocksValid =>
              /\ "dragon" \in attrs
              /\ Section("DESCRIPTORS").children
                    = [i \in 1..Len(opts.blocks) |->
                          Node("block", <<A("id", IntToStr(opts.blocks[i])),
                                          A("SelectAll", <<"true">>)>>, <<>>)]
              /\ (MolValid /\ OutputValid /\ ExternalValid) => last.result = "self"
        /\ ~BlocksValid => last.result = "ValueError"

C2_Witness ==
    /\ FreshCall /\ opts.version = 7 /\ opts.blocks = <<30>> /\ last.result = "self"
    /\ Attr(Section("DESCRIPTORS").children[1], "id") = <<"3", "0">>

(* C3: with molInput "stdin", a fresh build whose molInputFormat is outside *)
(* the version's list raises ValueError, and one whose format is inside it  *)
(* returns, with a molInputFormat entry of exactly that value in MOLFILES.  *)
C3_Format ==
    (FreshCall /\ Supported /\ WeightsValid /\ BlocksValid /\ opts.molInput = "stdin") =>
        /\ ~FormatValid => last.result = "ValueError"
        /\ FormatValid =>
              /\ "dragon" \in attrs
              /\ HasChild(Section("MOLFILES"), "molInputFormat")
              /\ Attr(Child(Section("MOLFILES"), "molInputFormat"), "value")
                    = <<opts.molInputFormat>>
              /\ (OutputValid /\ ExternalValid) => last.result = "self"

C3_Witness ==
    /\ FreshCall /\ opts.version = 7 /\ opts.molInput = "stdin"
    /\ opts.molInputFormat = "CML" /\ last.result = "self"
    /\ Attr(Child(Section("MOLFILES"), "molInputFormat"), "value") = <<"CML">>

(* C4: a fresh build with a version other than 6 or 7 warns and does not   *)
(* raise: it ends without an exception and without writing a script file,  *)
(* on an object never built as on one built before.                        *)
C4_WarnOnly ==
    (FreshCall /\ ~Supported) =>
        /\ last.warned
        /\ ~last.wrote
        /\ last.result = "self"

(* C5: a script_wizard call that raises ValueError writes no file: the     *)
(* script is written only after every check of that call has passed.       *)
C5_NoWriteOnError ==
    [][(last'.op = "script_wizard" /\ last'.result = "ValueError" /\ left' # left)
          => fs' = fs]_vars

C5_Witness ==
    /\ FreshCall /\ last.result = "ValueError"
    /\ WeightsValid /\ BlocksValid /\ opts.molInput = "url"
    /\ self.output_directory \o ScriptName \notin DOMAIN fs

(* C6: every fresh build whose options pass the checks (file saving        *)
(* disabled included) and every load of a document with the four mandatory *)
(* sections stores as data_path the value read back from the OUTPUT        *)
(* section and returns the object.                                         *)
C6_DataPath ==
    /\ (FreshCall /\ Supported /\ WeightsValid /\ BlocksValid /\ MolValid /\ ExternalValid) =>
          /\ last.result = "self"
          /\ "data_path" \in attrs
          /\ self.data_path = Attr(Child(Section("OUTPUT"), "SaveFilePath"), "value")
    /\ (LoadCall /\ last.script \in DOMAIN fs
          /\ MandatoryNodes \subseteq Tags(parse(fs[last.script]))
          /\ HasAttr(parse(fs[last.script]), "version")
          /\ Attr(parse(fs[last.script]), "version") # <<>>) =>
          /\ last.result = "self"
          /\ "data_path" \in attrs
          /\ self.data_path = Attr(Child(Section("OUTPUT"), "SaveFilePath"), "value")

(* C7: once a build has succeeded, run() launches dragon<version>shell     *)
(* with, as script argument, the path of the document written or loaded by *)
(* the most recent successful build.                                       *)
C7_RunScript ==
    (last.op = "run" /\ good.kind # "none") =>
        /\ last.result = "None"
        /\ last.cmd = <<"nohup dragon">> \o IntToStr(opts.version) \o <<"shell -s ">>
                      \o good.path

(* C8: a script written by a fresh build, loaded back with script_wizard,  *)
(* gives a document with OPTIONS, DESCRIPTORS, MOLFILES and OUTPUT among   *)
(* the children of its root, and the load gets past the check of them.     *)
WrittenScripts == {p \in DOMAIN fs : p[Len(p)] = "Dragon_script.drs"}
C8_RoundTrip ==
    (LoadCall /\ last.script \in WrittenScripts) =>
        /\ "dragon" \in attrs
        /\ {"OPTIONS", "DESCRIPTORS", "MOLFILES", "OUTPUT"} \subseteq Tags(Doc)
        /\ last.result \in {"self", "AttributeError"}
        /\ "drs" \in attrs /\ self.drs = last.script

C8_Witness ==
    /\ LoadCall /\ last.script = <<"tmp", "/", "Dragon_script.drs">>
    /\ last.script \in DOMAIN fs
    /\ last.result = "self"
    /\ TagsOf(Doc) = <<"OPTIONS", "DESCRIPTORS", "MOLFILES", "OUTPUT">>

(* C9: loading a document: a mandatory section missing from the children   *)
(* of the root makes script_wizard raise ValueError; a version that does   *)
(* not start with 6 or 7 gives a warning only and the load goes on; no     *)
(* check of weights, blocks or formats is made.                            *)
LoadedFile == parse(fs[last.script])
StartsWith6or7(doc) ==
    /\ HasAttr(doc, "version")
    /\ Attr(doc, "version") # <<>>
    /\ Attr(doc, "version")[1] \in {"6", "7"}
C9_Load ==
    (LoadCall /\ last.script \in DOMAIN fs) =>
        /\ ~({"OPTIONS", "DESCRIPTORS", "MOLFILES", "OUTPUT"} \subseteq Tags(LoadedFile))
              => last.result = "ValueError"
        /\ {"OPTIONS", "DESCRIPTORS", "MOLFILES", "OUTPUT"} \subseteq Tags(LoadedFile)
              => /\ last.result \in {"self", "AttributeError"}
                 /\ last.warned = ~StartsWith6or7(LoadedFile)
                 /\ "drs" \in attrs /\ self.drs = last.script

(* C10: a successful fresh build has, with external on, an EXTERNAL        *)
(* section after OUTPUT holding fileName, delimiter, consecutiveDelimiter  *)
(* and MissingValue (also when fileName is left at its default), and with  *)
(* external off no EXTERNAL section.                                       *)
C10_External ==
    (FreshCall /\ Supported /\ WeightsValid /\ BlocksValid /\ MolValid /\ OutputValid) =>
        /\ last.result = "self"
        /\ opts.external =>
              /\ TagsOf(Doc) = <<"OPTIONS", "DESCRIPTORS", "MOLFILES", "OUTPUT", "EXTERNAL">>
              /\ TagsOf(Section("EXTERNAL"))
                    = <<"fileName", "delimiter", "consecutiveDelimiter", "MissingValue">>
        /\ ~opts.external => "EXTERNAL" \notin Tags(Doc)

(* C11: for every output directory string given to script_wizard, the      *)
(* directory stored is the string itself when it ends with a separator,    *)
(* and the string plus one separator when it does not.                     *)
EndsWithSep(s) == s # <<>> /\ s[Len(s)] = Sep
C11_Normalize ==
    (last.op = "script_wizard") =>
        /\ "output_directory" \in attrs
        /\ self.output_directory = IF EndsWithSep(last.dir) THEN last.dir
                                   ELSE last.dir \o <<Sep>>

(* C12: in the document of a fresh build, each of SaveFilePath, logFile    *)
(* and SaveProjectFile that the OUTPUT section holds has a value that      *)
(* starts with the stored output directory.                                *)
StartsWith(s, prefix) ==
    Len(prefix) <= Len(s) /\ SubSeq(s, 1, Len(prefix)) = prefix
OutputPathFields == {"SaveFilePath", "logFile", "SaveProjectFile"}
C12_Anchored ==
    (FreshCall /\ Supported /\ "dragon" \in attrs /\ HasChild(Doc, "OUTPUT")) =>
        \A f \in OutputPathFields :
            HasChild(Section("OUTPUT"), f) =>
                StartsWith(Attr(Child(Section("OUTPUT"), f), "value"), self.output_directory)

(* C13: after any sequence of script_wizard calls, when self.dragon and    *)
(* self.data_path both exist, data_path is the SaveFilePath value of the   *)
(* OUTPUT section of self.dragon; and a call that raises leaves            *)
(* self.dragon as it was before the call.                                  *)
Raises == {"ValueError", "TypeError", "AttributeError", "KeyError", "IndexError", "IOError"}
DataPathOfDoc(has, me) ==
    ({"dragon", "data_path"} \subseteq has) =>
        /\ HasChild(me.dragon, "OUTPUT")
        /\ HasChild(Child(me.dragon, "OUTPUT"), "SaveFilePath")
        /\ me.data_path = Attr(Child(Child(me.dragon, "OUTPUT"), "SaveFilePath"), "value")
C13_DocAndDataPath ==
    [][/\ DataPathOfDoc(attrs', self')
       /\ (last'.op = "script_wizard" /\ last'.result \in Raises /\ left' # left) =>
             /\ ("dragon" \in attrs') = ("dragon" \in attrs)
             /\ self'.dragon = self.dragon]_vars

(* C14: a fresh build leaves every option as it was, but for a version 7   *)
(* build with Missing_String "NaN", which stores "na" in its place; a      *)
(* version 6 build emits the Missing_String stored, so "na" after such a   *)
(* version 7 build; and a fresh build repeated with the same options and   *)
(* the same directory gives the same document but for generation_date.     *)
NoDate(e) == [e EXCEPT !.attrs = SelectSeq(@, LAMBDA a : a.k # "generation_date")]
FreshStep ==
    /\ left' # left
    /\ last'.op = "script_wizard" /\ last'.script = New /\ last'.dir # <<>>
C14_OptionsFrame ==
    [][FreshStep =>
          /\ opts' = IF opts.version = 7 /\ opts.Missing_String = <<"NaN">>
                     THEN [opts EXCEPT !.Missing_String = <<"na">>]
                     ELSE opts
          /\ (opts.version = 6 /\ last'.result = "self") =>
                Attr(Child(Child(self'.dragon, "OPTIONS"), "Missing_String"), "value")
                   = opts.Missing_String
          /\ (FreshCall /\ opts' = opts /\ self'.output_directory = self.output_directory) =>
                /\ last'.result = last.result
                /\ ("dragon" \in attrs') = ("dragon" \in attrs)
                /\ NoDate(self'.dragon) = NoDate(self.dragon)]_vars

C14_Witness ==
    /\ FreshCall /\ opts.version = 6 /\ last.result = "self"
    /\ opts.Missing_String = <<"na">>
    /\ Attr(Child(Section("OPTIONS"), "Missing_String"), "value") = <<"na">>

====
